---- MODULE Spec2Model ----
(***************************************************************************)
(* Spiritual Navigator (src/app.py): a Streamlit script that is executed   *)
(* from top to bottom on every user event and on every st.rerun().  The    *)
(* state is st.session_state; one step of the model is one execution of    *)
(* the script.  Texts are sequences of characters; a fixed multi-character *)
(* literal of the source (a heading, the conclusion keyword, a template    *)
(* fragment) is one element of the sequence.                               *)
(***************************************************************************)
EXTENDS Integers, Sequences, FiniteSets, TLC

VARIABLES session_state, page, rerun, event, runCalls, actionCalls, arg, ret, fn

vars == <<session_state, page, rerun, event, runCalls, actionCalls, arg, ret, fn>>

(***************************************************************************)
(* Bounds                                                                  *)
(***************************************************************************)
\* longest message history the dialogue is explored to
MaxMessages == 5
\* longest text handed to parse_discover_more
MaxTextLen == 6
\* most lines of a text handed to parse_lineage_summaries
MaxLines == 3

(***************************************************************************)
(* Text helpers (Python str methods)                                       *)
(***************************************************************************)
NL == "\n"
IsSpace(c) == c \in {" ", NL}

RECURSIVE lstrip(_)
lstrip(t) == IF t # <<>> /\ IsSpace(Head(t)) THEN lstrip(Tail(t)) ELSE t

RECURSIVE rstrip(_)
rstrip(t) ==
    IF t # <<>> /\ IsSpace(t[Len(t)]) THEN rstrip(SubSeq(t, 1, Len(t) - 1)) ELSE t

strip(t) == rstrip(lstrip(t))

startswith(t, tok) == t # <<>> /\ t[1] = tok

\* str.replace(tok, ""): every occurrence of tok is removed
replace(t, tok) == SelectSeq(t, LAMBDA c : c # tok)

\* smallest index >= from holding tok, or 0
RECURSIVE Find(_, _, _)
Find(t, tok, from) ==
    IF from > Len(t) THEN 0
    ELSE IF t[from] = tok THEN from
    ELSE Find(t, tok, from + 1)

\* first index >= from that holds no whitespace (Len(t) + 1 if none): greedy \s*
RECURSIVE SkipWS(_, _)
SkipWS(t, from) ==
    IF from <= Len(t) /\ IsSpace(t[from]) THEN SkipWS(t, from + 1) ELSE from

\* first index >= from that holds a newline (Len(t) + 1 if none): greedy .*
RECURSIVE EndOfLine(_, _)
EndOfLine(t, from) ==
    IF from <= Len(t) /\ t[from] # NL THEN EndOfLine(t, from + 1) ELSE from

(***************************************************************************)
(* Values returned by call_gemini: response.text, or None after an error   *)
(***************************************************************************)
None == [none |-> TRUE, text |-> <<>>]
Text(t) == [none |-> FALSE, text |-> t]

\* Python truthiness of a call_gemini result
Truthy(r) == ~r.none /\ r.text # <<>>

\* the outcome of the service decides what call_gemini returns
call_gemini(outcome) == IF outcome.none THEN None ELSE Text(outcome.text)

(***************************************************************************)
(* parse_lineage_summaries: findall of the pattern bold name, optional     *)
(* whitespace, colon, optional whitespace, rest of the line.               *)
(* The result is a dict kept as a sequence of <<name, summary>> in         *)
(* insertion order.                                                        *)
(***************************************************************************)
IsBold(t, i) == i + 1 <= Len(t) /\ t[i] = "*" /\ t[i + 1] = "*"

\* after the closing ** at j: \s* then ':'
ColonAt(t, j) == SkipWS(t, j + 2)
RestOK(t, j) == ColonAt(t, j) <= Len(t) /\ t[ColonAt(t, j)] = ":"

\* closing positions the lazy group may stop at, for a match starting at i
Closings(t, i) ==
    {j \in (i + 2)..(Len(t) - 1) :
        /\ IsBold(t, j)
        /\ \A k \in (i + 2)..(j - 1) : t[k] # NL
        /\ RestOK(t, j)}

MatchesAt(t, i) == IsBold(t, i) /\ Closings(t, i) # {}

Min(S) == CHOOSE x \in S : \A y \in S : x <= y

\* the match starting at i: name, summary and the index after the match
MatchAt(t, i) ==
    LET j == Min(Closings(t, i))
        m == SkipWS(t, ColonAt(t, j) + 1)
        n == EndOfLine(t, m)
    IN  [name |-> SubSeq(t, i + 2, j - 1), summary |-> SubSeq(t, m, n - 1), end |-> n]

RECURSIVE FindAll(_, _)
FindAll(t, from) ==
    IF from > Len(t) THEN <<>>
    ELSE IF MatchesAt(t, from)
         THEN <<MatchAt(t, from)>> \o FindAll(t, MatchAt(t, from).end)
         ELSE FindAll(t, from + 1)

Keys(d) == {d[i][1] : i \in 1..Len(d)}

\* DictPut keeping the value a key already has
DictPut_keep_first(d, k, v) == IF k \in Keys(d) THEN d ELSE Append(d, <<k, v>>)

\* d[k] = v on an insertion-ordered dict
DictPut(d, k, v) ==
    IF k \in Keys(d)
    THEN [i \in 1..Len(d) |-> IF d[i][1] = k THEN <<k, v>> ELSE d[i]]
    ELSE Append(d, <<k, v>>)

RECURSIVE DictOf(_, _)
DictOf(ms, d) ==
    IF ms = <<>> THEN d
    ELSE DictOf(Tail(ms), DictPut(d, Head(ms).name, Head(ms).summary))

parse_lineage_summaries(text) ==
    IF text = <<>> THEN <<>> ELSE DictOf(FindAll(text, 1), <<>>)

(***************************************************************************)
(* parse_discover_more                                                     *)
(***************************************************************************)
BooksHeading == "### Books to Read"
PlacesHeading == "### Places to Visit"
MusicHeading == "### Music to Listen To"
NotFound == <<"No recommendations found.">>

\* re.search of heading, whitespace, lazy group, lookahead for `next` (DOTALL):
\* the leftmost heading that has a later `next`; the group runs from after the
\* whitespace to that `next`
SectionUpTo(text, heading, next) ==
    LET i == Find(text, heading, 1)
        j == SkipWS(text, i + 1)
        k == Find(text, next, j)
    IN  IF i = 0 \/ k = 0 THEN [found |-> FALSE, group |-> <<>>]
        ELSE [found |-> TRUE, group |-> SubSeq(text, j, k - 1)]

\* re.search of heading, whitespace, greedy group (DOTALL): the group runs to
\* the end of the text
SectionToEnd(text, heading) ==
    LET i == Find(text, heading, 1)
        j == SkipWS(text, i + 1)
    IN  IF i = 0 THEN [found |-> FALSE, group |-> <<>>]
        ELSE [found |-> TRUE, group |-> SubSeq(text, j, Len(text))]

SectionText(m) == IF m.found THEN strip(m.group) ELSE NotFound

NoSections == [empty |-> TRUE, books |-> <<>>, places |-> <<>>, music |-> <<>>]

parse_discover_more(text) ==
    IF text = <<>> THEN NoSections
    ELSE [empty  |-> FALSE,
          books  |-> SectionText(SectionUpTo(text, BooksHeading, PlacesHeading)),
          places |-> SectionText(SectionUpTo(text, PlacesHeading, MusicHeading)),
          music  |-> SectionText(SectionToEnd(text, MusicHeading))]

(***************************************************************************)
(* st.session_state: a function whose domain is the set of keys present    *)
(***************************************************************************)
Has(ss, k) == k \in DOMAIN ss

\* ss[k] = v
Put(ss, k, v) == [x \in DOMAIN ss \cup {k} |-> IF x = k THEN v ELSE ss[x]]

\* lines 96-97: the state a new browser session starts the script with
FreshSession == [stage |-> "start"]

\* restart_app: delete every key, then set the stage
restart_app(ss) == [x \in {"stage"} |-> "start"]

Message(role, text) == [role |-> role, parts |-> text]

\* st.session_state.get('lineages'), st.session_state.get('messages', [])
Lineages(ss) == IF Has(ss, "lineages") THEN ss.lineages ELSE <<>>
Messages(ss) == IF Has(ss, "messages") THEN ss.messages ELSE <<>>

(***************************************************************************)
(* Prompt templates (f-strings): fixed fragments around the embedded       *)
(* fields                                                                  *)
(***************************************************************************)
LineagePrompt(vritti) ==
    <<"For a user exploring '">> \o vritti \o <<"', provide a markdown list of lineages">>

MasterPrompt(lineage, vritti) ==
    <<"For the lineage '">> \o lineage \o <<"' and the query '">> \o vritti
        \o <<"', choose the master">>

OpeningPrompt(vritti, lineage, master) ==
    <<"I am a seeker exploring '">> \o vritti \o <<"'. I have chosen the path of '">>
        \o lineage \o <<"'. As a guide inspired by the teachings of ">> \o master
        \o <<", please begin">>

DiscoverPrompt(master, vritti) ==
    <<"For the master ">> \o master \o <<" and their teachings on '">> \o vritti
        \o <<"', provide suggestions">>

\* one call of call_gemini: where it was made, its arguments and its result
Call(site, prompt, is_chat, history, result) ==
    [site |-> site, prompt |-> prompt, is_chat |-> is_chat, history |-> history,
     result |-> result]

(***************************************************************************)
(* What the service may answer, per call site                              *)
(***************************************************************************)
Bold(name) == <<"*", "*">> \o name \o <<"*", "*">>
Zen == <<"Z">>
Stoicism == <<"S">>

Topics == {<<>>, <<" ">>, <<"f">>, <<" ", "f">>}

LineageOutcomes ==
    {None, Text(<<>>), Text(<<"g">>),
     Text(Bold(Zen) \o <<":", " ", "z">>),
     Text(Bold(Stoicism) \o <<":", " ", "s", NL>> \o Bold(Zen) \o <<":", " ", "z">>)}

MasterOutcomes == {None, Text(<<>>), Text(<<"T">>), Text(<<" ", "T", NL>>)}

OpeningOutcomes == {None, Text(<<>>), Text(<<"q">>)}

Keyword == "CONCLUSION:"

ContinuationOutcomes ==
    {None, Text(<<>>), Text(<<"q">>), Text(<<"q", Keyword>>), Text(<<"conclusion:", "e">>),
     Text(<<Keyword, " ", "e">>), Text(<<" ", Keyword, "e", " ", Keyword, "e", NL>>)}

DiscoverOutcomes ==
    {None, Text(<<>>), Text(<<"x">>),
     Text(<<BooksHeading, NL, "b", PlacesHeading, NL, "p", MusicHeading, NL, "m">>),
     Text(<<BooksHeading, NL, "b", MusicHeading, NL, "m">>)}

Reflections == {<<"r">>}

(***************************************************************************)
(* One execution of the script.  A widget is what the user acted on; a     *)
(* button returns True only in the execution its click started, and only   *)
(* where that button is created.  The result of an execution: the session *)
(* state it leaves, whether it ended in st.rerun(), the calls it made.     *)
(***************************************************************************)
Widget(id, value) == [id |-> id, value |-> value]
NoWidget == Widget("none", <<>>)

Result(ss, rr, calls) == [ss |-> ss, rerun |-> rr, calls |-> calls]
Entered(ss, calls) == [ss |-> ss, calls |-> calls]

\* start_stage without the test for an empty topic
start_stage_unguarded(ss, w, text) ==
    LET ss1 == Put(ss, "vritti", text)
    IN  IF w.id = "begin"
        THEN Result(Put(ss1, "stage", "choose_lineage"), TRUE, <<>>)
        ELSE Result(ss1, FALSE, <<>>)

\* start_stage with the topic stripped before it is stored
start_stage_stripped(ss, w, text) ==
    LET ss1 == Put(ss, "vritti", strip(text))
    IN  IF w.id = "begin" /\ ss1.vritti # <<>>
        THEN Result(Put(ss1, "stage", "choose_lineage"), TRUE, <<>>)
        ELSE Result(ss1, FALSE, <<>>)

\* lines 107-115: stage "start"; text is what the text area holds
start_stage(ss, w, text) ==
    LET ss1 == Put(ss, "vritti", text)
    IN  IF w.id = "begin" /\ ss1.vritti # <<>>
        THEN Result(Put(ss1, "stage", "choose_lineage"), TRUE, <<>>)
        ELSE Result(ss1, FALSE, <<>>)

\* choose_lineage_entry without the test for the key
choose_lineage_entry_always(ss, outcome) ==
    LET response == call_gemini(outcome)
        call == Call("lineages", LineagePrompt(ss.vritti), FALSE, <<>>, response)
    IN  IF Truthy(response)
        THEN Entered(Put(ss, "lineages", parse_lineage_summaries(response.text)),
                     <<call>>)
        ELSE Entered(ss, <<call>>)

\* lines 119-124: the lineages are asked for whenever the key is absent
choose_lineage_entry(ss, outcome) ==
    IF Has(ss, "lineages") THEN Entered(ss, <<>>)
    ELSE LET response == call_gemini(outcome)
             call == Call("lineages", LineagePrompt(ss.vritti), FALSE, <<>>, response)
         IN  IF Truthy(response)
             THEN Entered(Put(ss, "lineages", parse_lineage_summaries(response.text)),
                          <<call>>)
             ELSE Entered(ss, <<call>>)

\* lines 134-137: "Explore this Path"
explore_path(ss, lineage) == Put(Put(ss, "chosen_lineage", lineage), "stage", "dialogue")

\* lines 117-142: stage "choose_lineage"
choose_lineage_stage(ss, w, outcome) ==
    LET e == choose_lineage_entry(ss, outcome)
    IN  IF w.id = "lineage" /\ w.value \in Keys(Lineages(e.ss))
        THEN Result(explore_path(e.ss, w.value), TRUE, e.calls)
        ELSE IF w.id = "start_over"
        THEN Result(restart_app(e.ss), TRUE, e.calls)
        ELSE Result(e.ss, FALSE, e.calls)

\* guide_chosen with the name stored as returned, not stripped
guide_chosen_unstripped(ss, master_name) ==
    LET ss1 == Put(ss, "chosen_master", master_name)
    IN  Put(ss1, "messages",
            <<Message("user",
                      OpeningPrompt(ss1.vritti, ss1.chosen_lineage, ss1.chosen_master))>>)

\* lines 150-151: the guide is stored and the history is started
guide_chosen(ss, master_name) ==
    LET ss1 == Put(ss, "chosen_master", strip(master_name))
    IN  Put(ss1, "messages",
            <<Message("user",
                      OpeningPrompt(ss1.vritti, ss1.chosen_lineage, ss1.chosen_master))>>)

\* lines 154-155: the first question is stored
dialogue_opened(ss, first_question) ==
    Put(Put(ss, "messages", Append(ss.messages, Message("model", first_question))),
        "dialogue_started", TRUE)

\* guide_failed sending the session to the start stage
guide_failed_to_start(ss) == Put(ss, "stage", "start")

\* lines 157-158: no guide
guide_failed(ss) == Put(ss, "stage", "choose_lineage")

\* lines 145-158: the dialogue is prepared whenever 'dialogue_started' is absent
dialogue_entry(ss, masterOutcome, openingOutcome) ==
    IF Has(ss, "dialogue_started") THEN Entered(ss, <<>>)
    ELSE LET master_name == call_gemini(masterOutcome)
             masterCall == Call("master", MasterPrompt(ss.chosen_lineage, ss.vritti),
                                FALSE, <<>>, master_name)
         IN  IF Truthy(master_name)
             THEN LET ss1 == guide_chosen(ss, master_name.text)
                      first_question == call_gemini(openingOutcome)
                      openingCall == Call("opening", ss1.messages[Len(ss1.messages)].parts,
                                          TRUE, <<>>, first_question)
                  IN  IF Truthy(first_question)
                      THEN Entered(dialogue_opened(ss1, first_question.text),
                                   <<masterCall, openingCall>>)
                      ELSE Entered(ss1, <<masterCall, openingCall>>)
             ELSE Entered(guide_failed(ss), <<masterCall>>)

\* lines 173-174: the dialogue is concluded
conclude(ss, next_question) ==
    Put(Put(ss, "final_summary", strip(replace(next_question, Keyword))),
        "stage", "final_summary")

\* chat_input concluding whenever the keyword occurs anywhere in the answer
chat_input_contains(ss, prompt, outcome) ==
    LET ss1 == Put(ss, "messages", Append(ss.messages, Message("user", prompt)))
        history_for_api == ss1.messages
        next_question == call_gemini(outcome)
        call == Call("continuation", prompt, TRUE, history_for_api, next_question)
    IN  IF Truthy(next_question)
        THEN IF Find(next_question.text, Keyword, 1) > 0
             THEN Result(conclude(ss1, next_question.text), TRUE, <<call>>)
             ELSE Result(Put(ss1, "messages",
                             Append(ss1.messages, Message("model", next_question.text))),
                         TRUE, <<call>>)
        ELSE Result(ss1, TRUE, <<call>>)

\* chat_input taking the reflection back when the call fails
chat_input_rollback(ss, prompt, outcome) ==
    LET ss1 == Put(ss, "messages", Append(ss.messages, Message("user", prompt)))
        history_for_api == ss1.messages
        next_question == call_gemini(outcome)
        call == Call("continuation", prompt, TRUE, history_for_api, next_question)
    IN  IF Truthy(next_question)
        THEN IF startswith(strip(next_question.text), Keyword)
             THEN Result(conclude(ss1, next_question.text), TRUE, <<call>>)
             ELSE Result(Put(ss1, "messages",
                             Append(ss1.messages, Message("model", next_question.text))),
                         TRUE, <<call>>)
        ELSE Result(ss, TRUE, <<call>>)

\* lines 166-178: a reflection typed into the chat input
chat_input(ss, prompt, outcome) ==
    LET ss1 == Put(ss, "messages", Append(ss.messages, Message("user", prompt)))
        history_for_api == ss1.messages
        next_question == call_gemini(outcome)
        call == Call("continuation", prompt, TRUE, history_for_api, next_question)
    IN  IF Truthy(next_question)
        THEN IF startswith(strip(next_question.text), Keyword)
             THEN Result(conclude(ss1, next_question.text), TRUE, <<call>>)
             ELSE Result(Put(ss1, "messages",
                             Append(ss1.messages, Message("model", next_question.text))),
                         TRUE, <<call>>)
        ELSE Result(ss1, TRUE, <<call>>)

\* lines 144-182: stage "dialogue"
dialogue_stage(ss, w, masterOutcome, openingOutcome, outcome) ==
    LET e == dialogue_entry(ss, masterOutcome, openingOutcome)
    IN  IF Has(e.ss, "dialogue_started") /\ w.id = "chat_input"
        THEN LET c == chat_input(e.ss, w.value, outcome)
             IN  Result(c.ss, c.rerun, e.calls \o c.calls)
        ELSE IF w.id = "end_session"
        THEN Result(restart_app(e.ss), TRUE, e.calls)
        ELSE Result(e.ss, FALSE, e.calls)

\* lines 195-200: the resources are asked for whenever the key is absent
final_summary_entry(ss, outcome) ==
    IF Has(ss, "discover_more_content") THEN Entered(ss, <<>>)
    ELSE LET response == call_gemini(outcome)
             call == Call("discover_more", DiscoverPrompt(ss.chosen_master, ss.vritti),
                          FALSE, <<>>, response)
         IN  IF Truthy(response)
             THEN Entered(Put(ss, "discover_more_content",
                              parse_discover_more(response.text)), <<call>>)
             ELSE Entered(ss, <<call>>)

\* lines 184-215: stage "final_summary"
final_summary_stage(ss, w, outcome) ==
    LET e == final_summary_entry(ss, outcome)
    IN  IF w.id = "new_journey"
        THEN Result(restart_app(e.ss), TRUE, e.calls)
        ELSE Result(e.ss, FALSE, e.calls)

\* the harness for the parsers is idle while the application runs
ParserIdle == arg = <<>> /\ ret = NoSections /\ fn = "none"

\* lines 107, 117, 144, 184: the branch of the current stage is executed
ScriptRun(w, text) ==
    \E r \in IF session_state.stage = "start"
               THEN {start_stage(session_state, w, text)}
             ELSE IF session_state.stage = "choose_lineage"
               THEN {choose_lineage_stage(session_state, w, o) : o \in LineageOutcomes}
             ELSE IF session_state.stage = "dialogue"
               THEN {dialogue_stage(session_state, w, m, o, c) :
                       m \in MasterOutcomes, o \in OpeningOutcomes,
                       c \in ContinuationOutcomes}
             ELSE {final_summary_stage(session_state, w, o) : o \in DiscoverOutcomes} :
        /\ session_state' = r.ss
        /\ rerun' = r.rerun
        /\ runCalls' = r.calls
        /\ page' = session_state.stage
        /\ UNCHANGED <<arg, ret, fn>>

(***************************************************************************)
(* The application: what starts an execution of the script                 *)
(***************************************************************************)
Init ==
    /\ session_state = FreshSession
    /\ page = "none"
    /\ rerun = TRUE
    /\ event = "load"
    /\ runCalls = <<>>
    /\ actionCalls = 0
    /\ ParserIdle

\* actionCalls counts the calls made since the last user request: an execution
\* the user started counts from zero, an execution st.rerun() started adds on
ByUser(e) == event' = e /\ actionCalls' = Len(runCalls')
BySelf == UNCHANGED event /\ actionCalls' = actionCalls + Len(runCalls')

\* the first execution, and the execution st.rerun() asks for
Rerun == rerun /\ ScriptRun(NoWidget, <<>>) /\ BySelf

\* the text area is changed
EditTopic(t) ==
    ~rerun /\ page = "start" /\ ScriptRun(NoWidget, t) /\ ByUser("editTopic")

\* "Begin Exploration" is pressed with t in the text area
BeginExploration(t) ==
    ~rerun /\ page = "start" /\ ScriptRun(Widget("begin", <<>>), t)
        /\ ByUser("submitTopic")

\* "Explore this Path" of a lineage on the page is pressed
ExploreThisPath(l) ==
    /\ ~rerun /\ page = "choose_lineage" /\ l \in Keys(Lineages(session_state))
    /\ ScriptRun(Widget("lineage", l), <<>>)
    /\ ByUser("selectLineage")

\* "Start Over" is pressed
StartOver ==
    ~rerun /\ page = "choose_lineage" /\ ScriptRun(Widget("start_over", <<>>), <<>>)
        /\ ByUser("restart")

\* a reflection is sent from the chat input on the page
SubmitReflection(p) ==
    /\ ~rerun /\ page = "dialogue" /\ Has(session_state, "dialogue_started")
    /\ Len(Messages(session_state)) < MaxMessages
    /\ ScriptRun(Widget("chat_input", p), <<>>)
    /\ ByUser("submitReflection")

\* "End Session & Start Over" is pressed
EndSession ==
    ~rerun /\ page = "dialogue" /\ ScriptRun(Widget("end_session", <<>>), <<>>)
        /\ ByUser("restart")

\* "Begin a New Journey" is pressed
BeginNewJourney ==
    ~rerun /\ page = "final_summary" /\ ScriptRun(Widget("new_journey", <<>>), <<>>)
        /\ ByUser("restart")

\* the user asks for a rerun of the page (the Rerun command of the app menu)
Rerender ==
    ~rerun /\ page \in {"choose_lineage", "dialogue", "final_summary"}
        /\ ScriptRun(NoWidget, <<>>) /\ ByUser("rerender")

Next ==
    \/ Rerun
    \/ \E t \in Topics : EditTopic(t)
    \/ \E t \in Topics : BeginExploration(t)
    \/ \E l \in Keys(Lineages(session_state)) : ExploreThisPath(l)
    \/ StartOver
    \/ \E p \in Reflections : SubmitReflection(p)
    \/ EndSession
    \/ BeginNewJourney
    \/ Rerender

Spec == Init /\ [][Next]_vars

(***************************************************************************)
(* The parsers on their own: a text is chosen, then parsed                 *)
(***************************************************************************)
AppIdle ==
    /\ session_state = FreshSession
    /\ page = "none"
    /\ rerun = TRUE
    /\ event = "load"
    /\ runCalls = <<>>
    /\ actionCalls = 0

RECURSIVE TextsOver(_, _)
TextsOver(alphabet, n) ==
    IF n = 0 THEN {<<>>}
    ELSE LET shorter == TextsOver(alphabet, n - 1)
         IN  shorter \cup {Append(t, c) : t \in shorter, c \in alphabet}

DiscoverAlphabet == {BooksHeading, PlacesHeading, MusicHeading, "x", " "}

InitDiscoverMore ==
    /\ AppIdle
    /\ arg \in TextsOver(DiscoverAlphabet, MaxTextLen)
    /\ ret = NoSections
    /\ fn = "none"

ParseDiscoverMore ==
    /\ fn = "none"
    /\ fn' = "parse_discover_more"
    /\ ret' = parse_discover_more(arg)
    /\ UNCHANGED <<session_state, page, rerun, event, runCalls, actionCalls, arg>>

NextDiscoverMore == ParseDiscoverMore

SpecDiscoverMore == InitDiscoverMore /\ [][NextDiscoverMore]_vars

\* a text for parse_lineage_summaries is made of lines: an entry in the format
\* the system instruction asks for (bold name, colon, summary), or another line
Entry(name, summary) == [entry |-> TRUE, name |-> name, text |-> summary]
Other(text) == [entry |-> FALSE, name |-> <<>>, text |-> text]

LineageNames == {<<"a">>, <<"b">>, <<"a", "b">>}
Summaries == {<<"x">>, <<"y", " ", "z">>, <<"x", ":", "*">>}
OtherLines == {<<>>, <<"g">>, <<"*", "*", "a">>, <<"a", ":", " ", "x">>}

Lines ==
    {Entry(n, s) : n \in LineageNames, s \in Summaries} \cup {Other(t) : t \in OtherLines}

LineText(l) == IF l.entry THEN Bold(l.name) \o <<":", " ">> \o l.text ELSE l.text

RECURSIVE JoinLines(_)
JoinLines(ls) ==
    IF ls = <<>> THEN <<>>
    ELSE IF Len(ls) = 1 THEN LineText(ls[1])
    ELSE LineText(ls[1]) \o <<NL>> \o JoinLines(Tail(ls))

InitLineages ==
    /\ AppIdle
    /\ arg \in UNION {[1..n -> Lines] : n \in 0..MaxLines}
    /\ ret = NoSections
    /\ fn = "none"

ParseLineages ==
    /\ fn = "none"
    /\ fn' = "parse_lineage_summaries"
    /\ ret' = parse_lineage_summaries(JoinLines(arg))
    /\ UNCHANGED <<session_state, page, rerun, event, runCalls, actionCalls, arg>>

NextLineages == ParseLineages

SpecLineages == InitLineages /\ [][NextLineages]_vars

(***************************************************************************)
(* Properties                                                              *)
(***************************************************************************)
Stage == session_state.stage

\* the execution that just ended made a call at `site`
Called(site) == \E i \in 1..Len(runCalls) : runCalls[i].site = site

\* C1: when the first lineage answer of an execution parses to an empty
\* mapping, that execution makes exactly one more lineage call, with another
\* prompt, and what is stored is the parse of that second answer
PrimaryEmpty ==
    /\ runCalls # <<>>
    /\ runCalls[1].site = "lineages"
    /\ Truthy(runCalls[1].result)
    /\ parse_lineage_summaries(runCalls[1].result.text) = <<>>

C1_FallbackIssued ==
    PrimaryEmpty =>
        /\ Len(runCalls) = 2
        /\ runCalls[2].site = "lineages"
        /\ runCalls[2].prompt # runCalls[1].prompt
        /\ Stage = "choose_lineage" =>
              Lineages(session_state) = parse_lineage_summaries(runCalls[2].result.text)

\* C2: "Begin Exploration" with an empty or whitespace-only topic leaves the
\* stage at start and no call is made
C2_BlankTopicStays ==
    (event = "submitTopic" /\ strip(session_state.vritti) = <<>>) =>
        Stage = "start" /\ runCalls = <<>>

\* C3: a text with the books heading, then the music heading, and no places
\* heading gives the placeholder for places, the trimmed text between the two
\* headings for books and the trimmed text after the music heading for music;
\* a text with the three headings once each, in order, gives the three trimmed
\* sections
Count(t, tok) == Len(SelectSeq(t, LAMBDA c : c = tok))
Between(t, i, j) == strip(SubSeq(t, i + 1, j - 1))

NoPlacesText ==
    /\ Count(arg, BooksHeading) = 1 /\ Count(arg, MusicHeading) = 1
    /\ Count(arg, PlacesHeading) = 0
    /\ Find(arg, BooksHeading, 1) < Find(arg, MusicHeading, 1)

WellFormedText ==
    /\ Count(arg, BooksHeading) = 1 /\ Count(arg, PlacesHeading) = 1
    /\ Count(arg, MusicHeading) = 1
    /\ Find(arg, BooksHeading, 1) < Find(arg, PlacesHeading, 1)
    /\ Find(arg, PlacesHeading, 1) < Find(arg, MusicHeading, 1)

C3_MissingPlaces ==
    fn = "parse_discover_more" =>
        /\ NoPlacesText =>
              /\ ret.places = NotFound
              /\ ret.books = Between(arg, Find(arg, BooksHeading, 1),
                                     Find(arg, MusicHeading, 1))
              /\ ret.music = Between(arg, Find(arg, MusicHeading, 1), Len(arg) + 1)
        /\ WellFormedText =>
              /\ ret.books = Between(arg, Find(arg, BooksHeading, 1),
                                     Find(arg, PlacesHeading, 1))
              /\ ret.places = Between(arg, Find(arg, PlacesHeading, 1),
                                      Find(arg, MusicHeading, 1))
              /\ ret.music = Between(arg, Find(arg, MusicHeading, 1), Len(arg) + 1)

\* C4: a continuation answer that begins, after leading whitespace, with the
\* keyword ends the dialogue: the stage is final_summary, final_summary is the
\* answer without that leading keyword, trimmed, later keywords kept, and no
\* model message is added
Concluding ==
    /\ event = "submitReflection"
    /\ Called("continuation")
    /\ startswith(lstrip(runCalls[1].result.text), Keyword)

C4_ConclusionKeepsRest ==
    Concluding =>
        /\ Stage = "final_summary"
        /\ session_state.final_summary = strip(Tail(lstrip(runCalls[1].result.text)))
        /\ session_state.messages = runCalls[1].history

\* C5: after a lineage is selected and the guide call and the opening call both
\* succeed, chosen_master is the trimmed guide answer, the stage is dialogue and
\* messages holds the opening prompt followed by the opening model turn
DialoguePrepared ==
    /\ event = "selectLineage"
    /\ Len(runCalls) = 2
    /\ runCalls[1].site = "master" /\ Truthy(runCalls[1].result)
    /\ runCalls[2].site = "opening" /\ Truthy(runCalls[2].result)

C5_OneMessage ==
    DialoguePrepared =>
        /\ session_state.chosen_master = strip(runCalls[1].result.text)
        /\ Stage = "dialogue"
        /\ Len(session_state.messages) = 1

C5_TwoMessages ==
    DialoguePrepared =>
        /\ session_state.chosen_master = strip(runCalls[1].result.text)
        /\ Stage = "dialogue"
        /\ Len(session_state.messages) = 2
        /\ session_state.messages[1] = Message("user", runCalls[2].prompt)
        /\ session_state.messages[2] = Message("model", runCalls[2].result.text)

C5_Witness ==
    /\ DialoguePrepared
    /\ runCalls[1].result.text # strip(runCalls[1].result.text)
    /\ Has(session_state, "dialogue_started")

\* C6: once a restart button has been pressed the session is a fresh session
\* (stage start, nothing else set) and the execution made no call
C6_RestartIsFresh ==
    (event = "restart" /\ page # "start") =>
        session_state = FreshSession /\ runCalls = <<>>

\* C7: the stage changes only start -> choose_lineage on a submitted topic,
\* choose_lineage -> dialogue on a selected lineage, dialogue -> final_summary
\* on a reflection, dialogue -> choose_lineage when the guide call failed, and
\* to start on a restart
GuideCallFailed(calls) ==
    calls # <<>> /\ calls[Len(calls)].site = "master" /\ ~Truthy(calls[Len(calls)].result)

StageStep ==
    LET from == session_state.stage
        to == session_state'.stage
    IN  from # to =>
            \/ from = "start" /\ to = "choose_lineage" /\ ByUser("submitTopic")
            \/ from = "choose_lineage" /\ to = "dialogue" /\ ByUser("selectLineage")
            \/ from = "dialogue" /\ to = "final_summary" /\ ByUser("submitReflection")
            \/ from = "dialogue" /\ to = "choose_lineage" /\ GuideCallFailed(runCalls')
            \/ from # "start" /\ to = "start" /\ ByUser("restart")

C7_StageOrder == [][StageStep]_vars

C7_Witness == Stage = "choose_lineage" /\ page = "dialogue" /\ GuideCallFailed(runCalls)

\* C8: chosen_lineage is set only in the stages dialogue and final_summary
C8_LineageOnlyInDialogue ==
    Has(session_state, "chosen_lineage") => Stage \in {"dialogue", "final_summary"}

\* C9: messages is non-empty only when dialogue_started is set
C9_MessagesOnlyWhenStarted ==
    Messages(session_state) # <<>> => Has(session_state, "dialogue_started")

\* C10: a call is made only in answer to the user request it belongs to (a
\* submitted topic, a selected lineage, a reflection), never because the page
\* is executed again or a restart button is pressed, and a failed call leaves
\* the stage where it was (choose_lineage after a failed guide call)
Request(site) ==
    CASE site = "lineages" -> "submitTopic"
      [] site \in {"master", "opening"} -> "selectLineage"
      [] OTHER -> "submitReflection"

C10_NoAutomaticRetry ==
    \A i \in 1..Len(runCalls) :
        /\ event = Request(runCalls[i].site)
        /\ ~Truthy(runCalls[i].result) =>
              Stage = (IF runCalls[i].site = "master" THEN "choose_lineage" ELSE page)

\* C11: a user action leads to at most one call (as claimed), resp. to at most
\* two: only the guide call followed, after its answer, by the opening call
\* share an execution, and a user request never leads to more than two calls
C11_OneCallPerAction == actionCalls <= 1

C11_AtMostTwoCalls ==
    /\ actionCalls <= 2
    /\ Len(runCalls) <= 2
    /\ Len(runCalls) = 2 =>
          /\ runCalls[1].site = "master" /\ Truthy(runCalls[1].result)
          /\ runCalls[2].site = "opening"
          /\ \E v \in Topics, l \in {Zen, Stoicism} :
                runCalls[2].prompt = OpeningPrompt(v, l, strip(runCalls[1].result.text))

C11_Witness == actionCalls = 2 /\ Len(runCalls) = 2 /\ event = "selectLineage"

\* C12: when the discover-more call gives no response, discover_more_content
\* exists and its three sections are the placeholder
C12_PlaceholdersOnFailure ==
    (Stage = "final_summary" /\ Called("discover_more") /\ ~Truthy(runCalls[1].result)) =>
        /\ Has(session_state, "discover_more_content")
        /\ session_state.discover_more_content.books = NotFound
        /\ session_state.discover_more_content.places = NotFound
        /\ session_state.discover_more_content.music = NotFound

\* C13: when the guide call made after a lineage was selected fails, the stage
\* is choose_lineage, chosen_master, messages and dialogue_started are not set,
\* no opening call is made and the lineages are still there, with no new
\* lineage call
C13_GuideFailureLeavesNothing ==
    (event = "selectLineage" /\ GuideCallFailed(runCalls)) =>
        /\ Stage = "choose_lineage"
        /\ Len(runCalls) = 1
        /\ ~Has(session_state, "chosen_master")
        /\ ~Has(session_state, "messages")
        /\ ~Has(session_state, "dialogue_started")
        /\ Lineages(session_state) # <<>>

\* C14: "Begin Exploration" with a non-empty topic moves the stage from start
\* to choose_lineage and stores the topic as typed; the stored topic does not
\* change while the stage is not start, and every prompt built from the topic
\* embeds the stored value
PromptEmbeds(call, ss) ==
    CASE call.site = "lineages" -> call.prompt = LineagePrompt(ss.vritti)
      [] call.site = "master" -> call.prompt = MasterPrompt(ss.chosen_lineage, ss.vritti)
      [] call.site = "opening" ->
            \E m \in {strip(o.text) : o \in MasterOutcomes} :
                call.prompt = OpeningPrompt(ss.vritti, ss.chosen_lineage, m)
      [] call.site = "discover_more" ->
            call.prompt = DiscoverPrompt(ss.chosen_master, ss.vritti)
      [] OTHER -> TRUE

TopicStep ==
    /\ \A t \in Topics :
          (BeginExploration(t) /\ t # <<>>) =>
              /\ session_state'.stage = "choose_lineage"
              /\ session_state'.vritti = t
    /\ (session_state.stage # "start" /\ session_state'.stage # "start") =>
          session_state'.vritti = session_state.vritti
    /\ session_state.stage # "start" =>
          \A i \in 1..Len(runCalls') : PromptEmbeds(runCalls'[i], session_state)

C14_TopicVerbatim == [][TopicStep]_vars

C14_Witness ==
    /\ Stage = "dialogue" /\ Called("opening")
    /\ session_state.vritti # strip(session_state.vritti)

\* the step is an execution in which a reflection was sent: its continuation call
Continued == event' = "submitReflection" /\ runCalls' # <<>>
                /\ runCalls'[1].site = "continuation"
Answer == runCalls'[1].result

\* C15: a successful continuation answer that does not begin, after leading
\* whitespace, with the keyword appends the user message and then a model
\* message with the whole answer, changes no earlier message, and leaves the
\* stage at dialogue and final_summary unset
NonConcludingStep ==
    (Continued /\ Truthy(Answer) /\ ~startswith(lstrip(Answer.text), Keyword)) =>
        /\ session_state'.messages =
              session_state.messages \o <<Message("user", runCalls'[1].prompt),
                                          Message("model", Answer.text)>>
        /\ session_state'.stage = "dialogue"
        /\ ~Has(session_state', "final_summary")

C15_NonConcludingTurn == [][NonConcludingStep]_vars

C15_Witness ==
    /\ event = "submitReflection" /\ Called("continuation") /\ Stage = "dialogue"
    /\ Find(runCalls[1].result.text, Keyword, 1) > 1
    /\ session_state.messages[Len(session_state.messages)] =
          Message("model", runCalls[1].result.text)

\* C16: selecting a lineage sets chosen_lineage to it and the stage to dialogue
\* and clears the earlier dialogue state: messages empty, chosen_master unset
SelectStep ==
    \A l \in Keys(Lineages(session_state)) :
        ExploreThisPath(l) =>
            /\ session_state'.chosen_lineage = l
            /\ session_state'.stage = "dialogue"
            /\ Messages(session_state') = <<>>
            /\ ~Has(session_state', "chosen_master")

C16_SelectClears == [][SelectStep]_vars

\* C17: the continuation call is made with the reflection as its prompt and with
\* the messages as they were before the reflection was appended as its history
ContinuationStep ==
    \A p \in Reflections :
        SubmitReflection(p) =>
            /\ runCalls'[1].prompt = p
            /\ runCalls'[1].history = session_state.messages

C17_HistoryIsPriorTurns == [][ContinuationStep]_vars

\* C18: parsing the text written from the entries of a mapping, one line
\* '**name**: summary' each, gives the mapping back in its order; other lines
\* add nothing; no entry line gives the empty mapping; a name on several lines
\* has one entry, with the summary of its last line
EntriesOf(lines) == SelectSeq(lines, LAMBDA l : l.entry)

RECURSIVE FirstNames(_, _)
FirstNames(es, seen) ==
    IF es = <<>> THEN <<>>
    ELSE IF Head(es).name \in seen THEN FirstNames(Tail(es), seen)
    ELSE <<Head(es).name>> \o FirstNames(Tail(es), seen \cup {Head(es).name})

LastSummary(es, name) ==
    LET last == CHOOSE i \in 1..Len(es) :
                    /\ es[i].name = name
                    /\ \A j \in (i + 1)..Len(es) : es[j].name # name
    IN  es[last].text

ExpectedMapping(lines) ==
    LET es == EntriesOf(lines)
        names == FirstNames(es, {})
    IN  [i \in 1..Len(names) |-> <<names[i], LastSummary(es, names[i])>>]

C19_FieldsDefined ==
    /\ Stage \in {"choose_lineage", "dialogue", "final_summary"} =>
          Has(session_state, "vritti") /\ session_state.vritti # <<>>
    /\ Stage = "dialogue" =>
          /\ Has(session_state, "chosen_lineage")
          /\ session_state.chosen_lineage \in Keys(Lineages(session_state))
    /\ Stage = "final_summary" =>
          /\ Has(session_state, "chosen_master")
          /\ Has(session_state, "dialogue_started")
          /\ Has(session_state, "final_summary")

C19_Witness ==
    /\ Stage = "final_summary" /\ Called("discover_more")
    /\ runCalls[1].prompt =
          DiscoverPrompt(session_state.chosen_master, session_state.vritti)

\* C20: a continuation call that fails or answers with empty text leaves the
\* stage at dialogue and final_summary unset and adds the one user message to
\* messages; once the dialogue has started, messages begins with the opening
\* prompt (user) and the opening turn (model); later roles need not alternate
FailedTurnStep ==
    (Continued /\ ~Truthy(Answer)) =>
        /\ session_state'.messages =
              Append(session_state.messages, Message("user", runCalls'[1].prompt))
        /\ session_state'.stage = "dialogue"
        /\ ~Has(session_state', "final_summary")

OpeningFirst(ss) ==
    Has(ss, "dialogue_started") =>
        /\ Len(ss.messages) >= 2
        /\ ss.messages[1] =
              Message("user", OpeningPrompt(ss.vritti, ss.chosen_lineage, ss.chosen_master))
        /\ ss.messages[2].role = "model"

C20_FailedTurnKeepsReflection == [][FailedTurnStep /\ OpeningFirst(session_state')]_vars

C20_Witness ==
    /\ Has(session_state, "dialogue_started")
    /\ \E i \in 3..(Len(session_state.messages) - 1) :
          /\ session_state.messages[i].role = "user"
          /\ session_state.messages[i + 1].role = "user"

====
